---------------------------- MODULE Spec2Model ----------------------------
(***************************************************************************)
(* A model of rlclientlib's ONNX extension:                                *)
(*   - the tensor-notation parser (extensions/onnx/src/tensor_notation.cc),*)
(*     as a small-step machine over one TensorParser object, and as the    *)
(*     pure function obtained by running that machine to its return;       *)
(*   - onnx::onnx_model (extensions/onnx/src/onnx_model.cc): one updater   *)
(*     thread calling update, reader threads calling choose_rank, and the  *)
(*     shared _master_session / _output_index they race on.                *)
(* Positions are 0-based offsets from _parse_buffer, as in the code.       *)
(***************************************************************************)
EXTENDS Integers, Sequences, FiniteSets, Bags, TLC

VARIABLES
  tp,              \* the TensorParser object, its InputContext and its position
  master_session,  \* onnx_model::_master_session (a session id, or NullSession)
  output_index,    \* onnx_model::_output_index
  heap,            \* the Ort::Session objects allocated so far
  upd,             \* the updater thread: its position in update and its locals
  rd,              \* the reader threads: the bag of their positions and locals
  conf             \* what the constructor and the build fixed

vars == <<tp, master_session, output_index, heap, upd, rd, conf>>

(***************************************************************************)
(* Bounds of the model.                                                    *)
(***************************************************************************)
MaxTokens == 3     \* generated inputs are built from at most this many tokens
MaxCalls == 2      \* cached_parse calls made on one parser instance
MaxSessions == 2   \* Ort::Session objects the updater may allocate
NumReaders == 2    \* concurrent choose_rank callers

(***************************************************************************)
(* Characters.  A buffer is a sequence of one-character strings; the       *)
(* terminator is the character read at offset Len(buffer).                 *)
(***************************************************************************)
NULL_TERMINATOR == "NUL"
ESCAPE == "\\"
DQUOTE == "\""
SEMICOLON == ";"
COLON == ":"
COMMA == ","
OPEN_CBRACKET == "{"
CLOSE_CBRACKET == "}"


\* A const char*: null, or a null-terminated buffer.
NullBuffer == [null |-> TRUE, chars |-> <<>>]
Buffer(s) == [null |-> FALSE, chars |-> s]

\* *(buffer + i)
CharAt(buffer, i) ==
  IF i < Len(buffer.chars) THEN buffer.chars[i + 1] ELSE NULL_TERMINATOR

\* std::string(first, n): the n characters from offset first
Substring(buffer, first, n) ==
  [k \in 1..n |-> buffer.chars[first + k]]

(***************************************************************************)
(* Base64 (utility::conversions::from_base64 of cpprest).                  *)
(***************************************************************************)
Base64Alphabet ==
  << "A","B","C","D","E","F","G","H","I","J","K","L","M","N","O","P",
     "Q","R","S","T","U","V","W","X","Y","Z","a","b","c","d","e","f",
     "g","h","i","j","k","l","m","n","o","p","q","r","s","t","u","v",
     "w","x","y","z","0","1","2","3","4","5","6","7","8","9","+","/" >>

is_base64(c) ==
  \/ c = "="
  \/ \E k \in 1..Len(Base64Alphabet) : Base64Alphabet[k] = c

\* the 6-bit value of a base64 digit
Base64Value(c) == (CHOOSE k \in 1..Len(Base64Alphabet) : Base64Alphabet[k] = c) - 1

\* Padding is legal only as the last one or two characters of the last quad.
Base64WellFormed(s) ==
  /\ Len(s) % 4 = 0
  /\ \A k \in 1..Len(s) : is_base64(s[k])
  /\ \A k \in 1..Len(s) : s[k] = "=" =>
       /\ k >= Len(s) - 1
       /\ k >= 3
       /\ (k = Len(s) - 1 => s[Len(s)] = "=")
  \* the bits of the last digit that padding leaves unused are zero
  /\ (Len(s) > 0 /\ s[Len(s)] = "=" /\ s[Len(s) - 1] = "=") =>
       Base64Value(s[Len(s) - 2]) % 16 = 0
  /\ (Len(s) > 0 /\ s[Len(s)] = "=" /\ s[Len(s) - 1] # "=") =>
       Base64Value(s[Len(s) - 1]) % 4 = 0

\* the bytes of one quad: 3, or 2 or 1 when it ends in padding
DecodeQuad(q) ==
  LET v1 == Base64Value(q[1])
      v2 == Base64Value(q[2])
      v3 == IF q[3] = "=" THEN 0 ELSE Base64Value(q[3])
      v4 == IF q[4] = "=" THEN 0 ELSE Base64Value(q[4])
      b1 == ((v1 * 4) + (v2 \div 16)) % 256
      b2 == (((v2 % 16) * 16) + (v3 \div 4)) % 256
      b3 == (((v3 % 4) * 64) + v4) % 256
  IN  IF q[3] = "=" THEN <<b1>>
      ELSE IF q[4] = "=" THEN <<b1, b2>>
      ELSE <<b1, b2, b3>>

RECURSIVE from_base64(_)
from_base64(s) ==
  IF Len(s) = 0 THEN <<>>
  ELSE DecodeQuad(SubSeq(s, 1, 4)) \o from_base64(SubSeq(s, 5, Len(s)))


(***************************************************************************)
(* TensorParserError and the parser's error text.  A message is kept as    *)
(* the values streamed into it: the position of the prefix and the detail. *)
(***************************************************************************)
EmptyMessage ==
  [line |-> 0, col |-> 0, kind |-> "", expected |-> "", actual |-> "",
   run |-> <<>>]

\* TensorParserError(line, col): the prefix "... at position (line:col): "
TensorParserError(line, col) ==
  [line |-> line, col |-> col, kind |-> "position", expected |-> "",
   actual |-> "", run |-> <<>>]

NoException == [type |-> "none", error |-> EmptyMessage]

(***************************************************************************)
(* The TensorParser object.  pc is the statement the parser is at; name,   *)
(* in_escape, dims and values are the locals of the functions on the       *)
(* stack; thrown is the exception most recently thrown.  History, not read *)
(* by any step: tensor_start and starts (the offset at which each tensor   *)
(* pushed so far began) and returns (what each call of cached_parse        *)
(* returned, and the cursor and context size it left).                     *)
(***************************************************************************)
\* InputContext::push_input: append the tensor, keeping insertion order
push_input(context, name, value) ==
  Append(context, [name |-> name, dims |-> value[1], values |-> value[2]])

\* TensorParser::TensorParser
NewTensorParser(tensor_notation, input_context) ==
  [parse_buffer |-> tensor_notation,
   reading_head |-> 0,
   token_start |-> 0,
   parse_context |-> input_context,
   has_parsed |-> FALSE,
   has_error |-> FALSE,
   error_message |-> EmptyMessage,
   pc |-> "idle",
   name |-> <<>>,
   in_escape |-> FALSE,
   dims |-> <<>>,
   values |-> <<>>,
   thrown |-> NoException,
   tensor_start |-> 0,
   starts |-> <<>>,
   returns |-> <<>>]

succeeded(st) == ~st.has_error

error_message(st) == st.error_message

\* the std::for_each of make_error over [first, last)
RECURSIVE ScanPosition(_, _, _, _, _)
ScanPosition(buffer, first, last, line, col) ==
  IF first >= last THEN <<line, col>>
  ELSE IF CharAt(buffer, first) = "\n"
       THEN ScanPosition(buffer, first + 1, last, line + 1, 1)
       ELSE ScanPosition(buffer, first + 1, last, line, col + 1)

make_error(st) ==
  LET at == ScanPosition(st.parse_buffer, 0, st.reading_head + 1, 1, 1)
  IN  TensorParserError(at[1], at[2])

\* throw of a TensorParserError: control goes to cached_parse's handler
Throw(st, e) ==
  [st EXCEPT !.pc = "catch",
             !.thrown = [type |-> "TensorParserError", error |-> e]]

\* any other exception passes cached_parse's handler and leaves the call
ThrowOther(st) ==
  [st EXCEPT !.pc = "escaped",
             !.thrown = [type |-> "std::exception", error |-> EmptyMessage]]

\* skip_whitespace as it would be if its loop did not move the cursor
skip_whitespaceStaysInPlace(st, next) ==
  IF CharAt(st.parse_buffer, st.reading_head) \in {" ", "\t", "\r", "\n"}
  THEN st
  ELSE [st EXCEPT !.pc = next]

\* one iteration of skip_whitespace's loop, or its exit to `next`
skip_whitespace(st, next) ==
  IF CharAt(st.parse_buffer, st.reading_head) \in {" ", "\t", "\r", "\n"}
  THEN [st EXCEPT !.reading_head = @ + 1]
  ELSE [st EXCEPT !.pc = next]

\* read_character as it would be if it stepped over the character it
\* rejects
read_characterConsumesMismatch(st, c, next) ==
  IF CharAt(st.parse_buffer, st.reading_head) = c
  THEN [st EXCEPT !.reading_head = @ + 1, !.pc = next]
  ELSE [Throw(st, [make_error(st) EXCEPT
                     !.kind = "expecting",
                     !.expected = c,
                     !.actual = CharAt(st.parse_buffer, st.reading_head)])
          EXCEPT !.reading_head = @ + 1]

read_character(st, c, next) ==
  IF CharAt(st.parse_buffer, st.reading_head) = c
  THEN [st EXCEPT !.reading_head = @ + 1, !.pc = next]
  ELSE Throw(st, [make_error(st) EXCEPT
                    !.kind = "expecting",
                    !.expected = c,
                    !.actual = CharAt(st.parse_buffer, st.reading_head)])

\* the check as it would be if a run had to hold at least one character
DecodeRunRejectsEmpty(st) ==
  LET base64string ==
        Substring(st.parse_buffer, st.token_start,
                  st.reading_head - st.token_start)
  IN  IF Len(base64string) = 0 \/ Len(base64string) % 4 # 0
      THEN Throw(st, [make_error(st) EXCEPT
                        !.kind = "base64 length", !.run = base64string])
      ELSE IF ~Base64WellFormed(base64string)
      THEN ThrowOther(st)
      ELSE IF st.pc = "dims_decode"
      THEN [st EXCEPT !.dims = from_base64(base64string), !.pc = "data_semi"]
      ELSE [st EXCEPT !.values = from_base64(base64string),
                      !.pc = "data_close"]

\* the scanned run is checked and decoded
DecodeRun(st) ==
  LET base64string ==
        Substring(st.parse_buffer, st.token_start,
                  st.reading_head - st.token_start)
  IN  IF Len(base64string) % 4 # 0
      THEN Throw(st, [make_error(st) EXCEPT
                        !.kind = "base64 length", !.run = base64string])
      ELSE IF ~Base64WellFormed(base64string)
      THEN ThrowOther(st)
      ELSE IF st.pc = "dims_decode"
      THEN [st EXCEPT !.dims = from_base64(base64string), !.pc = "data_semi"]
      ELSE [st EXCEPT !.values = from_base64(base64string),
                      !.pc = "data_close"]

read_base64(st) ==
  CASE st.pc \in {"dims_start", "vals_start"} ->
         [st EXCEPT !.token_start = st.reading_head,
                    !.pc = IF st.pc = "dims_start" THEN "dims_scan"
                           ELSE "vals_scan"]
    [] st.pc \in {"dims_scan", "vals_scan"} ->
         IF is_base64(CharAt(st.parse_buffer, st.reading_head))
         THEN [st EXCEPT !.reading_head = @ + 1]
         ELSE [st EXCEPT !.pc = IF st.pc = "dims_scan" THEN "dims_decode"
                                ELSE "vals_decode"]
    [] st.pc \in {"dims_decode", "vals_decode"} -> DecodeRun(st)

\* one iteration of the name scan: the switch, then _reading_head++
NameScan(st) ==
  LET c == CharAt(st.parse_buffer, st.reading_head)
  IN  IF c = DQUOTE /\ ~st.in_escape THEN [st EXCEPT !.pc = "name_close"]
      ELSE IF c = NULL_TERMINATOR THEN [st EXCEPT !.pc = "name_close"]
      ELSE IF c = ESCAPE
      THEN [st EXCEPT !.in_escape = ~@, !.reading_head = @ + 1]
      ELSE [st EXCEPT !.reading_head = @ + 1]

read_tensor_name(st) ==
  CASE st.pc = "name_open" ->
         LET s1 == read_character(st, DQUOTE, "name_scan")
         IN  IF s1.pc = "name_scan"
             THEN [s1 EXCEPT !.token_start = s1.reading_head,
                             !.in_escape = FALSE]
             ELSE s1
    [] st.pc = "name_scan" -> NameScan(st)
    [] st.pc = "name_close" ->
         LET token_end == st.reading_head
             s1 == read_character(st, DQUOTE, "tensor_ws1")
         IN  IF s1.pc = "tensor_ws1"
             THEN [s1 EXCEPT !.name =
                     Substring(st.parse_buffer, st.token_start,
                               token_end - st.token_start)]
             ELSE s1

read_tensor_data(st) ==
  CASE st.pc = "data_open" -> read_character(st, DQUOTE, "dims_start")
    [] st.pc = "data_semi" -> read_character(st, SEMICOLON, "vals_start")
    [] st.pc = "data_close" -> read_character(st, DQUOTE, "push")

\* read_tensor as it would be if a tensor whose name is already in the
\* context were not pushed again
read_tensorSkipsDuplicateName(st) ==
  CASE st.pc = "tensor_ws1" -> skip_whitespace(st, "tensor_colon")
    [] st.pc = "tensor_colon" -> read_character(st, COLON, "tensor_ws2")
    [] st.pc = "tensor_ws2" -> skip_whitespace(st, "data_open")
    [] st.pc = "push" ->
         IF \E k \in 1..Len(st.parse_context) :
              st.parse_context[k].name = st.name
         THEN [st EXCEPT !.pc = "list_ws3"]
         ELSE [st EXCEPT !.parse_context =
                           push_input(@, st.name, <<st.dims, st.values>>),
                         !.starts = Append(@, st.tensor_start),
                         !.pc = "list_ws3"]

read_tensor(st) ==
  CASE st.pc = "tensor_ws1" -> skip_whitespace(st, "tensor_colon")
    [] st.pc = "tensor_colon" -> read_character(st, COLON, "tensor_ws2")
    [] st.pc = "tensor_ws2" -> skip_whitespace(st, "data_open")
    [] st.pc = "push" ->
         [st EXCEPT !.parse_context =
                      push_input(@, st.name, <<st.dims, st.values>>),
                    !.starts = Append(@, st.tensor_start),
                    !.pc = "list_ws3"]

read_tensor_list(st) ==
  CASE st.pc = "list_ws1" -> skip_whitespace(st, "list_open")
    [] st.pc = "list_open" -> read_character(st, OPEN_CBRACKET, "list_ws2")
    [] st.pc = "list_ws2" -> skip_whitespace(st, "list_loop")
    [] st.pc = "list_loop" ->
         IF /\ CharAt(st.parse_buffer, st.reading_head) # CLOSE_CBRACKET
            /\ CharAt(st.parse_buffer, st.reading_head) # NULL_TERMINATOR
         THEN [st EXCEPT !.pc = "name_open",
                         !.tensor_start = st.reading_head]
         ELSE [st EXCEPT !.pc = "list_close"]
    [] st.pc = "list_ws3" -> skip_whitespace(st, "list_comma")
    [] st.pc = "list_comma" ->
         IF CharAt(st.parse_buffer, st.reading_head) = COMMA
         THEN read_character(st, COMMA, "list_ws4")
         ELSE [st EXCEPT !.pc = "list_loop"]
    [] st.pc = "list_ws4" -> skip_whitespace(st, "list_loop")
    [] st.pc = "list_close" -> read_character(st, CLOSE_CBRACKET, "try_end")

\* return from cached_parse: what the caller can observe is recorded
Return(st, value) ==
  [st EXCEPT !.pc = "returned",
             !.returns = Append(@, [value |-> value,
                                    reading_head |-> st.reading_head,
                                    pushed |-> Len(st.parse_context)])]

\* cached_parse as it would be if only a null buffer skipped the parse
cached_parseParsesEmptyString(st) ==
  CASE st.pc \in {"idle", "returned"} ->
         IF st.has_parsed THEN Return(st, ~st.has_error)
         ELSE IF ~st.parse_buffer.null
         THEN [st EXCEPT !.pc = "list_ws1"]
         ELSE Return(st, ~st.has_error)
    [] st.pc = "catch" ->
         LET s1 == [st EXCEPT !.has_error = TRUE]
         IN  Return(s1, ~s1.has_error)
    [] st.pc = "try_end" -> Return(st, ~st.has_error)

\* cached_parse as it would be if its handler emptied the context
cached_parseRollsBack(st) ==
  CASE st.pc \in {"idle", "returned"} ->
         IF st.has_parsed THEN Return(st, ~st.has_error)
         ELSE IF /\ ~st.parse_buffer.null
                 /\ CharAt(st.parse_buffer, 0) # NULL_TERMINATOR
         THEN [st EXCEPT !.pc = "list_ws1"]
         ELSE Return(st, ~st.has_error)
    [] st.pc = "catch" ->
         LET s1 == [st EXCEPT !.has_error = TRUE, !.parse_context = <<>>]
         IN  Return(s1, ~s1.has_error)
    [] st.pc = "try_end" -> Return(st, ~st.has_error)

cached_parse(st) ==
  CASE st.pc \in {"idle", "returned"} ->
         IF st.has_parsed THEN Return(st, ~st.has_error)
         ELSE IF /\ ~st.parse_buffer.null
                 /\ CharAt(st.parse_buffer, 0) # NULL_TERMINATOR
         THEN [st EXCEPT !.pc = "list_ws1"]
         ELSE Return(st, ~st.has_error)
    [] st.pc = "catch" ->
         LET s1 == [st EXCEPT !.has_error = TRUE]
         IN  Return(s1, ~s1.has_error)
    [] st.pc = "try_end" -> Return(st, ~st.has_error)

ListPcs == {"list_ws1", "list_open", "list_ws2", "list_loop", "list_ws3",
            "list_comma", "list_ws4", "list_close"}
TensorPcs == {"tensor_ws1", "tensor_colon", "tensor_ws2", "push"}
NamePcs == {"name_open", "name_scan", "name_close"}
DataPcs == {"data_open", "data_semi", "data_close"}
Base64Pcs == {"dims_start", "dims_scan", "dims_decode",
              "vals_start", "vals_scan", "vals_decode"}
CallPcs == {"idle", "returned", "catch", "try_end"}

\* the statement at st.pc is executed
Step(st) ==
  CASE st.pc \in ListPcs -> read_tensor_list(st)
    [] st.pc \in TensorPcs -> read_tensor(st)
    [] st.pc \in NamePcs -> read_tensor_name(st)
    [] st.pc \in DataPcs -> read_tensor_data(st)
    [] st.pc \in Base64Pcs -> read_base64(st)
    [] st.pc \in CallPcs -> cached_parse(st)

\* one whole call of cached_parse: from the call to its return or escape
RECURSIVE RunToReturn(_)
RunToReturn(st) ==
  IF st.pc \in {"returned", "escaped"} THEN st ELSE RunToReturn(Step(st))

CallCachedParse(st) == RunToReturn(Step(st))

\* read_tensor_notation: the status it returns and the context it filled
read_tensor_notation(tensor_notation, input_context) ==
  LET parser == CallCachedParse(NewTensorParser(tensor_notation, input_context))
  IN  IF parser.pc = "escaped"
      THEN [outcome |-> "exception", message |-> EmptyMessage,
            input_context |-> parser.parse_context]
      ELSE IF ~parser.returns[1].value
      THEN [outcome |-> "extension_error",
            message |-> error_message(parser),
            input_context |-> parser.parse_context]
      ELSE [outcome |-> "success", message |-> EmptyMessage,
            input_context |-> parser.parse_context]


(***************************************************************************)
(* The inputs the parser is run on: every concatenation of at most         *)
(* MaxTokens tokens, and some longer notations.                            *)
(***************************************************************************)
Str(name, dims, values) ==
  <<DQUOTE>> \o name \o <<DQUOTE, COLON, DQUOTE>> \o dims
    \o <<SEMICOLON>> \o values \o <<DQUOTE>>

QQ == <<"Q", "Q", "=", "=">>      \* base64 of the one byte 65
Qg == <<"Q", "g", "=", "=">>      \* base64 of the one byte 66
ABC == <<"A", "B", "C">>          \* a run whose length is not divisible by 4

Tokens ==
  { <<OPEN_CBRACKET>>, <<CLOSE_CBRACKET>>, <<COMMA>>, <<" ">>, <<"\n">>,
    <<"x">>, <<DQUOTE>>,
    Str(<<"x">>, QQ, QQ),
    Str(<<"a">>, QQ, Qg),
    Str(<<"a">>, <<>>, QQ),
    Str(<<"a">>, QQ, <<>>),
    Str(<<"b">>, <<>>, <<>>),
    Str(<<"c">>, ABC, QQ),
    <<DQUOTE, "a", DQUOTE>> }

RECURSIVE TokenStrings(_)
TokenStrings(n) ==
  IF n = 0 THEN {<<>>}
  ELSE LET shorter == TokenStrings(n - 1)
       IN  shorter \cup {s \o t : s \in shorter, t \in Tokens}

LongerNotations ==
  { <<OPEN_CBRACKET>> \o Str(<<"a">>, QQ, QQ) \o Str(<<"b">>, QQ, QQ)
      \o <<CLOSE_CBRACKET>>,
    <<OPEN_CBRACKET>> \o Str(<<"a">>, QQ, QQ) \o <<" ">>
      \o Str(<<"b">>, QQ, Qg) \o <<CLOSE_CBRACKET>>,
    <<OPEN_CBRACKET>> \o Str(<<"a">>, QQ, QQ) \o <<COMMA>>
      \o Str(<<"b">>, QQ, Qg) \o <<CLOSE_CBRACKET>>,
    <<OPEN_CBRACKET>> \o Str(<<"a">>, QQ, QQ) \o <<COMMA>>
      \o Str(<<"a">>, Qg, QQ) \o <<COMMA, CLOSE_CBRACKET>>,
    <<OPEN_CBRACKET, "\n">> \o Str(<<"a">>, QQ, QQ) \o <<COMMA, "\n">>
      \o Str(<<"b">>, QQ, ABC) \o <<CLOSE_CBRACKET>>,
    <<OPEN_CBRACKET, DQUOTE, "a", DQUOTE, OPEN_CBRACKET>>
      \o Str(<<"b">>, QQ, QQ) \o <<CLOSE_CBRACKET>>,
    <<OPEN_CBRACKET>> \o Str(<<"a", ESCAPE, DQUOTE, "b">>, QQ, QQ)
      \o <<CLOSE_CBRACKET>>,
    <<OPEN_CBRACKET>> \o Str(<<"a", ESCAPE, ESCAPE, "b">>, QQ, QQ)
      \o <<CLOSE_CBRACKET>>,
    <<OPEN_CBRACKET>> \o Str(<<"a", ESCAPE, "x">>, QQ, QQ)
      \o <<CLOSE_CBRACKET>> }

Notations ==
  {NullBuffer} \cup {Buffer(s) : s \in TokenStrings(MaxTokens) \cup LongerNotations}


(***************************************************************************)
(* The inference engine, as onnx_model uses it.  A model's data is what    *)
(* the engine reports of it once loaded.                                   *)
(***************************************************************************)
NullSession == 0

FloatTensor == "tensor<float>"
Int64Tensor == "tensor<int64>"

\* base64 of int64[]{1}, of float[]{1.0f} and of float[]{2.0f}
DimsOne == <<"A","Q","A","A","A","A","A","A","A","A","A","=">>
ValueOne == <<"A","A","C","A","P","w","=","=">>
ValueTwo == <<"A","A","A","A","Q","A","=","=">>

EmptyData ==
  [id |-> "empty", data_sz |-> 0, loads |-> FALSE, inputs |-> <<>>,
   outputs |-> <<>>]
GarbageData ==
  [id |-> "garbage", data_sz |-> 1, loads |-> FALSE, inputs |-> <<>>,
   outputs |-> <<>>]
ModelA ==
  [id |-> "A", data_sz |-> 1, loads |-> TRUE,
   inputs |-> << [name |-> <<"x">>, type |-> FloatTensor] >>,
   outputs |-> << [name |-> "out", type |-> FloatTensor,
                   elements |-> <<10, 20>>] >>]
ModelB ==
  [id |-> "B", data_sz |-> 1, loads |-> TRUE,
   inputs |-> << [name |-> <<"x">>, type |-> FloatTensor] >>,
   outputs |-> << [name |-> "aux", type |-> FloatTensor, elements |-> <<7>>],
                  [name |-> "out", type |-> FloatTensor,
                   elements |-> <<30, 40, 50>>] >>]
ModelIntInput ==
  [id |-> "int-input", data_sz |-> 1, loads |-> TRUE,
   inputs |-> << [name |-> <<"x">>, type |-> FloatTensor],
                 [name |-> <<"y">>, type |-> Int64Tensor] >>,
   outputs |-> << [name |-> "out", type |-> FloatTensor,
                   elements |-> <<1>>] >>]
ModelNoOutput ==
  [id |-> "no-output", data_sz |-> 1, loads |-> TRUE,
   inputs |-> << [name |-> <<"x">>, type |-> FloatTensor] >>,
   outputs |-> << [name |-> "aux", type |-> FloatTensor,
                   elements |-> <<1>>] >>]
ModelIntOutput ==
  [id |-> "int-output", data_sz |-> 1, loads |-> TRUE,
   inputs |-> << [name |-> <<"x">>, type |-> FloatTensor] >>,
   outputs |-> << [name |-> "aux", type |-> FloatTensor, elements |-> <<1>>],
                  [name |-> "out", type |-> Int64Tensor,
                   elements |-> <<1>>] >>]

ModelTwoInputs ==
  [id |-> "two-inputs", data_sz |-> 1, loads |-> TRUE,
   inputs |-> << [name |-> <<"x">>, type |-> FloatTensor],
                 [name |-> <<"y">>, type |-> FloatTensor] >>,
   outputs |-> << [name |-> "out", type |-> FloatTensor,
                   elements |-> <<60>>] >>]

ModelData ==
  {EmptyData, GarbageData, ModelA, ModelB, ModelIntInput, ModelNoOutput,
   ModelIntOutput}

\* the feature strings choose_rank is called with: one tensor "x" as the
\* models declare it, and a notation whose values run has a bad length
Features ==
  { Buffer(<<OPEN_CBRACKET>> \o Str(<<"x">>, DimsOne, ValueOne)
             \o <<CLOSE_CBRACKET>>),
    Buffer(<<OPEN_CBRACKET>> \o Str(<<"x">>, DimsOne, ABC)
             \o <<CLOSE_CBRACKET>>) }

\* further feature strings: no tensor, two tensors, a tensor the models do
\* not declare, a run of base64 characters that is not a base64 encoding,
\* a tensor of one byte of dimensions and one byte of values, and a null
\* pointer
MoreFeatures ==
  { Buffer(<<OPEN_CBRACKET, CLOSE_CBRACKET>>),
    Buffer(<<OPEN_CBRACKET>> \o Str(<<"x">>, DimsOne, ValueOne)
             \o <<COMMA>> \o Str(<<"y">>, DimsOne, ValueTwo)
             \o <<CLOSE_CBRACKET>>),
    Buffer(<<OPEN_CBRACKET>> \o Str(<<"z">>, DimsOne, ValueOne)
             \o <<CLOSE_CBRACKET>>),
    Buffer(<<OPEN_CBRACKET>>
             \o Str(<<"x">>, <<"Q", "=", "=", "=">>, ValueOne)
             \o <<CLOSE_CBRACKET>>),
    Buffer(<<OPEN_CBRACKET>> \o Str(<<"x">>, QQ, QQ)
             \o <<CLOSE_CBRACKET>>),
    NullBuffer }

AllFeatures == Features \cup MoreFeatures

EmptyStatus == [code |-> "none", message |-> EmptyMessage, reason |-> ""]
Success == [code |-> "success", message |-> EmptyMessage, reason |-> ""]
Error(code, reason) == [code |-> code, message |-> EmptyMessage, reason |-> reason]

(***************************************************************************)
(* onnx_model::update, one updater thread.                                 *)
(***************************************************************************)
\* the validation of a loaded session: rules 1 and 2 of update
ValidateInputs(session) ==
  \A i \in 1..Len(session.inputs) : session.inputs[i].type = FloatTensor

\* the loop that looks for _output_name: the 0-based index of the first
\* output that carries it, or the output count when none does
RECURSIVE FindOutput(_, _, _)
FindOutput(session, output_name, index) ==
  IF index >= Len(session.outputs) THEN index
  ELSE IF session.outputs[index + 1].name = output_name
       THEN index
       ELSE FindOutput(session, output_name, index + 1)

ValidateOutput(session, index) ==
  session.outputs[index + 1].type = FloatTensor

\* new Ort::Session: the object, not yet owned by any shared_ptr.  heap
\* keeps the sessions that pass validation; one that fails it is never
\* deleted and never reachable again.
NewSession(data) == [model |-> data, refs |-> 0, alive |-> TRUE]

\* update as it would be if the loaded session were stored in
\* _master_session before it is validated
UpdateValidateInstallsFirst(data) ==
  /\ upd.pc \in {"idle", "returned"}
  /\ Len(heap) < MaxSessions
  /\ LET entry == [upd EXCEPT !.data = data.id,
                              !.before = <<master_session, output_index>>,
                              !.new_session = NullSession,
                              !.old_session = NullSession,
                              !.status = EmptyStatus]
         fail(reason) ==
           [entry EXCEPT !.pc = "returned",
                         !.status = Error("model_update_error", reason)]
         output_idx == FindOutput(data, conf.output_name, 0)
     IN  IF data.data_sz <= 0 \/ ~data.loads
         THEN /\ upd' = fail("Empty model data.")
              /\ UNCHANGED <<heap, master_session>>
         ELSE IF \/ ~ValidateInputs(data)
                 \/ output_idx >= Len(data.outputs)
                 \/ ~ValidateOutput(data, output_idx)
         THEN /\ upd' = fail("Invalid model.")
              /\ heap' = Append(heap, [NewSession(data) EXCEPT !.refs = 1])
              /\ master_session' = Len(heap) + 1
         ELSE /\ heap' = Append(heap, NewSession(data))
              /\ upd' = [entry EXCEPT !.pc = "set_index",
                                      !.new_session = Len(heap) + 1,
                                      !.output_index = output_idx]
              /\ UNCHANGED master_session
  /\ UNCHANGED <<tp, output_index, rd, conf>>

\* update as it would be if a failed call dropped the served session
UpdateValidateResetsOnFailure(data) ==
  /\ upd.pc \in {"idle", "returned"}
  /\ Len(heap) < MaxSessions
  /\ LET entry == [upd EXCEPT !.data = data.id,
                              !.before = <<master_session, output_index>>,
                              !.new_session = NullSession,
                              !.old_session = NullSession,
                              !.status = EmptyStatus]
         fail(reason) ==
           [entry EXCEPT !.pc = "returned",
                         !.status = Error("model_update_error", reason)]
         output_idx == FindOutput(data, conf.output_name, 0)
     IN  IF \/ data.data_sz <= 0
            \/ ~data.loads
            \/ ~ValidateInputs(data)
            \/ output_idx >= Len(data.outputs)
            \/ ~ValidateOutput(data, output_idx)
         THEN /\ upd' = fail("Invalid model.")
              /\ master_session' = NullSession
              /\ heap' = heap
         ELSE /\ heap' = Append(heap, NewSession(data))
              /\ upd' = [entry EXCEPT !.pc = "set_index",
                                      !.new_session = Len(heap) + 1,
                                      !.output_index = output_idx]
              /\ UNCHANGED master_session
  /\ UNCHANGED <<tp, output_index, rd, conf>>

\* lines 70-128 and the handlers: everything update does before it writes
\* a member
UpdateValidate(data) ==
  /\ upd.pc \in {"idle", "returned"}
  /\ Len(heap) < MaxSessions
  /\ LET entry == [upd EXCEPT !.data = data.id,
                              !.before = <<master_session, output_index>>,
                              !.new_session = NullSession,
                              !.old_session = NullSession,
                              !.status = EmptyStatus]
         fail(reason) ==
           [entry EXCEPT !.pc = "returned",
                         !.status = Error("model_update_error", reason)]
         output_idx == FindOutput(data, conf.output_name, 0)
     IN  IF data.data_sz <= 0
         THEN /\ upd' = fail("Empty model data.")
              /\ heap' = heap
         ELSE IF ~data.loads
         THEN /\ upd' = fail("e.what()")
              /\ heap' = heap
         ELSE IF ~ValidateInputs(data)
         THEN /\ upd' = fail("Invalid input type. Expected: tensor<float>.")
              /\ heap' = heap
         ELSE IF output_idx >= Len(data.outputs)
         THEN /\ upd' = fail("Could not find output with name in model.")
              /\ heap' = heap
         ELSE IF ~ValidateOutput(data, output_idx)
         THEN /\ upd' = fail("Invalid output type. Expected: tensor<float>.")
              /\ heap' = heap
         ELSE /\ heap' = Append(heap, NewSession(data))
              /\ upd' = [entry EXCEPT !.pc = "set_index",
                                      !.new_session = Len(heap) + 1,
                                      !.output_index = output_idx]
  /\ UNCHANGED <<tp, master_session, output_index, rd, conf>>

\* update as it would be if it set model_ready before the new session is
\* installed
UpdateSetOutputIndexSetsReady ==
  /\ upd.pc = "set_index"
  /\ output_index' = upd.output_index
  /\ upd' = [upd EXCEPT !.pc = "install", !.model_ready = TRUE]
  /\ UNCHANGED <<tp, master_session, heap, rd, conf>>

\* line 131: _output_index = output_index
UpdateSetOutputIndex ==
  /\ upd.pc = "set_index"
  /\ output_index' = upd.output_index
  /\ upd' = [upd EXCEPT !.pc = "install"]
  /\ UNCHANGED <<tp, master_session, heap, rd, conf>>

\* line 134, first half: the new shared_ptr takes the session and is moved
\* into _master_session
UpdateInstall ==
  /\ upd.pc = "install"
  /\ master_session' = upd.new_session
  /\ heap' = [heap EXCEPT ![upd.new_session].refs = 1]
  /\ upd' = [upd EXCEPT !.pc = "release", !.old_session = master_session,
                        !.installs = @ + 1]
  /\ UNCHANGED <<tp, output_index, rd, conf>>

\* ~shared_ptr: the reference is dropped, the last one deletes the session
ReleaseRef(h, session) ==
  IF session = NullSession THEN h
  ELSE [h EXCEPT ![session].refs = @ - 1,
                 ![session].alive = IF h[session].refs = 1 THEN FALSE ELSE @]

\* line 134, second half: the reference _master_session held is released
UpdateRelease ==
  /\ upd.pc = "release"
  /\ heap' = ReleaseRef(heap, upd.old_session)
  /\ upd' = [upd EXCEPT !.pc = "ready"]
  /\ UNCHANGED <<tp, master_session, output_index, rd, conf>>

\* lines 143-144
UpdateReturn ==
  /\ upd.pc = "ready"
  /\ upd' = [upd EXCEPT !.pc = "returned", !.model_ready = TRUE,
                        !.status = Success]
  /\ UNCHANGED <<tp, master_session, output_index, heap, rd, conf>>


(***************************************************************************)
(* onnx_model::choose_rank, NumReaders reader threads.                     *)
(***************************************************************************)
\* The reader threads are interchangeable: rd is the bag of their states.
\* raw is the pointer the copy of _master_session has read.  History, not
\* read by any step: served_at_entry (whether a session had been installed
\* when the call read the pointer), parsed (whether the call reached the
\* parser), mismatch (whether the notation, once parsed, held another number
\* of tensors than the session declares inputs), ran (whether the call
\* invoked the engine's Run) and call (the arguments ChooseRankCallWith was
\* given).
\* the arguments of a call that passes nothing: a null feature string,
\* empty vectors and an empty model_version
NoArguments ==
  [rnd_seed |-> 0, features |-> NullBuffer, action_ids |-> <<>>,
   action_pdf |-> <<>>, model_version |-> ""]

IdleReader ==
  [pc |-> "idle", call |-> NoArguments, features |-> NullBuffer, raw |-> NullSession,
   local_session |-> NullSession, served_at_entry |-> FALSE,
   status |-> EmptyStatus, parsed |-> FALSE, mismatch |-> FALSE,
   ran |-> FALSE, outputs |-> <<>>,
   action_ids |-> <<>>, action_pdf |-> <<>>,
   model_version |-> ""]

Readers == BagToSet(rd)

\* the thread in state me moves to state next
Becomes(me, next) == (rd (-) SetToBag({me})) (+) SetToBag({next})

\* OnnxRtInputContext::input_count: the tensors pushed
input_count(context) == Len(context)

\* OnnxRtInputContext::inputs: one engine value per pushed tensor whose bytes
\* are whole int64 dimensions and whole float values
inputs(context) ==
  SelectSeq(context,
            LAMBDA t : Len(t.dims) % 8 = 0 /\ Len(t.values) % 4 = 0)

\* OnnxRtInputContext::input_names
input_names(context) == [i \in 1..Len(context) |-> context[i].name]

\* Ort::Session::Run for the output names requested: the engine rejects
\* input names that are not the model's
RunAccepts(session, names) ==
  /\ Len(names) = Len(session.inputs)
  /\ \A i \in 1..Len(names) : names[i] = session.inputs[i].name

Run(session, output_names) ==
  [k \in 1..Len(output_names) |->
     session.outputs[
       CHOOSE i \in 1..Len(session.outputs) :
         session.outputs[i].name = output_names[k]]]

\* read_tensor_notation on each feature string, into a fresh context
ParsedFeatures == [f \in AllFeatures |-> read_tensor_notation(f, <<>>)]

\* line 154, first half: the copy reads _master_session's pointer
ChooseRankCall(me, features) ==
  /\ me.pc \in {"idle", "returned"}
  /\ rd' = Becomes(me, [IdleReader EXCEPT !.pc = "addref",
                                          !.features = features,
                                          !.raw = master_session,
                                          !.served_at_entry =
                                             upd.installs > 0])
  /\ UNCHANGED <<tp, master_session, output_index, heap, upd, conf>>

\* line 154, first half, for any arguments: the caller's vectors and
\* model_version hold what the caller put into them
ChooseRankCallWith(me, rnd_seed, features, action_ids, action_pdf, model_version) ==
  /\ me.pc \in {"idle", "returned"}
  /\ rd' = Becomes(me, [IdleReader EXCEPT
                          !.pc = "addref",
                          !.features = features,
                          !.raw = master_session,
                          !.served_at_entry = upd.installs > 0,
                          !.action_ids = action_ids,
                          !.action_pdf = action_pdf,
                          !.model_version = model_version,
                          !.call = [rnd_seed |-> rnd_seed,
                                    features |-> features,
                                    action_ids |-> action_ids,
                                    action_pdf |-> action_pdf,
                                    model_version |-> model_version]])
  /\ UNCHANGED <<tp, master_session, output_index, heap, upd, conf>>

\* line 154, second half: the copy takes its reference on the session read
ChooseRankAddRef(me) ==
  /\ me.pc = "addref"
  /\ LET s == me.raw
     IN  IF s = NullSession
         THEN /\ rd' = Becomes(me, [me EXCEPT !.pc = "infer"])
              /\ heap' = heap
         ELSE IF heap[s].alive
         THEN /\ rd' = Becomes(me, [me EXCEPT !.pc = "infer",
                                              !.local_session = s,
                                              !.raw = NullSession])
              /\ heap' = [heap EXCEPT ![s].refs = @ + 1]
         ELSE \* the session was deleted between the two halves
              /\ rd' = Becomes(me, [me EXCEPT !.pc = "use_after_free",
                                              !.local_session = s])
              /\ heap' = heap
  /\ UNCHANGED <<tp, master_session, output_index, upd, conf>>

\* what is left of a call once it is over: the status and the caller's
\* vectors; the locals are gone
Finished(me, pc, status) ==
  [IdleReader EXCEPT !.pc = pc, !.status = status, !.parsed = me.parsed,
                     !.served_at_entry = me.served_at_entry,
                     !.mismatch = me.mismatch, !.ran = me.ran,
                     !.call = me.call,
                     !.action_ids = me.action_ids,
                     !.action_pdf = me.action_pdf,
                     !.model_version = me.model_version]

\* a return of choose_rank: local_session goes out of scope
ReaderReturn(me, last, status) ==
  /\ rd' = Becomes(me, Finished(last, "returned", status))
  /\ heap' = ReleaseRef(heap, me.local_session)

\* an exception leaves choose_rank: the stack is unwound, nothing is returned
ReaderThrow(me, last) ==
  /\ rd' = Becomes(me, Finished(last, "threw", EmptyStatus))
  /\ heap' = ReleaseRef(heap, me.local_session)

\* lines 155-186: the checks, the parse and the engine's Run
ChooseRankInfer(me) ==
  /\ me.pc = "infer"
  /\ LET read == ParsedFeatures[me.features]
         context == read.input_context
         parsed == [me EXCEPT !.parsed = TRUE]
         counted == [parsed EXCEPT !.mismatch =
                       input_count(context) #
                         Len(heap[me.local_session].model.inputs)]
         invoked == [counted EXCEPT !.ran = TRUE]
     IN  IF me.local_session = NullSession
         THEN ReaderReturn(me, me,
                Error("model_rank_error", "No model loaded."))
         ELSE IF ~conf.parse_feature_string
         THEN ReaderReturn(me, me, Error("model_rank_error",
                "Using parse_feature_string=false not implemented."))
         ELSE IF read.outcome = "exception"
         THEN ReaderThrow(me, parsed)
         ELSE IF read.outcome # "success"
         THEN ReaderReturn(me, parsed,
                [code |-> read.outcome, message |-> read.message,
                 reason |-> "Failed to deserialize tensor: "])
         ELSE IF Len(inputs(context)) # input_count(context)
         THEN ReaderReturn(me, counted, Error("model_rank_error",
                "Could not interpret input values to match expected inputs."))
         ELSE IF ~RunAccepts(heap[me.local_session].model,
                             input_names(context))
         THEN ReaderThrow(me, invoked)
         ELSE /\ rd' = Becomes(me,
                     [invoked EXCEPT
                        !.pc = "assert",
                        !.outputs = Run(heap[me.local_session].model,
                                        <<conf.output_name>>)])
              /\ heap' = heap
  /\ UNCHANGED <<tp, master_session, output_index, upd, conf>>

\* line 187: the assertion, compiled out under NDEBUG
ChooseRankAssert(me) ==
  /\ me.pc = "assert"
  /\ rd' = Becomes(me, [me EXCEPT !.pc =
              IF conf.ndebug \/ Len(me.outputs) > output_index
              THEN "extract" ELSE "aborted"])
  /\ UNCHANGED <<tp, master_session, output_index, heap, upd, conf>>

\* choose_rank as it would be if it assigned the caller's vectors instead of
\* appending to them
ChooseRankExtractOverwrites(me) ==
  /\ me.pc = "extract"
  /\ IF output_index < Len(me.outputs)
     THEN LET floatarr == me.outputs[output_index + 1].elements
              num_elements == Len(floatarr)
              done == [me EXCEPT
                         !.action_ids = [i \in 1..num_elements |-> i - 1],
                         !.action_pdf = floatarr]
          IN  ReaderReturn(me, done, Success)
     ELSE /\ rd' = Becomes(me, [me EXCEPT !.pc = "out_of_bounds"])
          /\ heap' = heap
  /\ UNCHANGED <<tp, master_session, output_index, upd, conf>>

\* lines 191-202: outputs[_output_index] is read into the caller's vectors
ChooseRankExtract(me) ==
  /\ me.pc = "extract"
  /\ IF output_index < Len(me.outputs)
     THEN LET floatarr == me.outputs[output_index + 1].elements
              num_elements == Len(floatarr)
              done == [me EXCEPT
                         !.action_ids =
                            @ \o [i \in 1..num_elements |-> i - 1],
                         !.action_pdf = @ \o floatarr]
          IN  ReaderReturn(me, done, Success)
     ELSE \* a read past the end of the vector
          /\ rd' = Becomes(me, [me EXCEPT !.pc = "out_of_bounds"])
          /\ heap' = heap
  /\ UNCHANGED <<tp, master_session, output_index, upd, conf>>

(***************************************************************************)
(* The specification of the model handle: one updater, NumReaders readers. *)
(***************************************************************************)
\* History, not read by any step: before (_master_session and _output_index
\* when the call began) and installs (how often line 134 has run).
IdleUpdater ==
  [pc |-> "idle", data |-> "", new_session |-> NullSession,
   old_session |-> NullSession, output_index |-> 0, model_ready |-> FALSE,
   status |-> EmptyStatus, before |-> <<NullSession, 0>>, installs |-> 0]

\* NumReaders threads, none of them in a call
NoCalls == [me \in {IdleReader} |-> NumReaders]

\* the parser is not part of this specification
NoParser == NewTensorParser(NullBuffer, <<>>)

Init ==
  /\ tp = NoParser
  /\ master_session = NullSession
  /\ output_index \in {0, 1}            \* the constructor leaves it unset
  /\ heap = <<>>
  /\ upd = IdleUpdater
  /\ rd = NoCalls
  /\ conf \in [output_name : {"out"}, parse_feature_string : BOOLEAN,
               ndebug : BOOLEAN]

Next ==
  \/ \E data \in ModelData : UpdateValidate(data)
  \/ UpdateSetOutputIndex
  \/ UpdateInstall
  \/ UpdateRelease
  \/ UpdateReturn
  \/ \E me \in Readers :
       \/ \E features \in Features : ChooseRankCall(me, features)
       \/ ChooseRankAddRef(me)
       \/ ChooseRankInfer(me)
       \/ ChooseRankAssert(me)
       \/ ChooseRankExtract(me)

Spec == Init /\ [][Next]_vars

(***************************************************************************)
(* The specification of update and its caller: between two calls the       *)
(* caller may give the flag it passes as model_ready any value.            *)
(***************************************************************************)
\* the caller's bool, passed by reference as model_ready
CallerSetsModelReady(value) ==
  /\ upd.pc \in {"idle", "returned"}
  /\ upd.model_ready # value
  /\ upd' = [upd EXCEPT !.model_ready = value]
  /\ UNCHANGED <<tp, master_session, output_index, heap, rd, conf>>

UpdateNext ==
  \/ \E value \in BOOLEAN : CallerSetsModelReady(value)
  \/ \E data \in ModelData : UpdateValidate(data)
  \/ UpdateSetOutputIndex
  \/ UpdateInstall
  \/ UpdateRelease
  \/ UpdateReturn

UpdateSpec == Init /\ [][UpdateNext]_vars

(***************************************************************************)
(* The specification of choose_rank alone: a model has been installed by   *)
(* one successful update and no update runs; the calls are made with every *)
(* feature string.                                                         *)
(***************************************************************************)
RankModels == {ModelA, ModelB, ModelTwoInputs}

\* the updater after its first, successful, call with data
UpdatedWith(data) ==
  [IdleUpdater EXCEPT !.pc = "returned", !.data = data.id,
                      !.new_session = 1,
                      !.output_index = FindOutput(data, "out", 0),
                      !.model_ready = TRUE, !.status = Success,
                      !.installs = 1]

RankInit ==
  /\ tp = NoParser
  /\ master_session = 1
  /\ \E data \in RankModels :
       /\ heap = << [NewSession(data) EXCEPT !.refs = 1] >>
       /\ upd = UpdatedWith(data)
       /\ output_index = FindOutput(data, "out", 0)
  /\ rd = NoCalls
  /\ conf \in [output_name : {"out"}, parse_feature_string : BOOLEAN,
               ndebug : BOOLEAN]

RankNext ==
  \/ \E me \in Readers, features \in AllFeatures :
       ChooseRankCall(me, features)
  \/ \E me \in Readers : ChooseRankAddRef(me)
  \/ \E me \in Readers : ChooseRankInfer(me)
  \/ \E me \in Readers : ChooseRankAssert(me)
  \/ \E me \in Readers : ChooseRankExtract(me)

RankSpec == RankInit /\ [][RankNext]_vars

(***************************************************************************)
(* The specification of choose_rank and its caller: the calls are made     *)
(* with any seed, with vectors that may hold entries already and with a    *)
(* model_version that is set; no model is served, or ModelA is.            *)
(***************************************************************************)
\* what the callers pass: a seed, and vectors that are empty or hold the
\* result of an earlier call
Seeds == {0, 1}
CallerVectors == { <<<<>>, <<>>>>, <<<<0>>, <<99>>>> }

\* a notation the model accepts, one that fails to parse and one whose
\* tensor does not hold whole dimensions
FrameFeatures ==
  Features \cup
    { Buffer(<<OPEN_CBRACKET>> \o Str(<<"x">>, QQ, QQ)
               \o <<CLOSE_CBRACKET>>) }

FrameInit ==
  /\ tp = NoParser
  /\ \/ /\ master_session = NullSession
        /\ heap = <<>>
        /\ upd = IdleUpdater
        /\ output_index \in {0, 1}
     \/ /\ master_session = 1
        /\ heap = << [NewSession(ModelA) EXCEPT !.refs = 1] >>
        /\ upd = UpdatedWith(ModelA)
        /\ output_index = FindOutput(ModelA, "out", 0)
  /\ rd = NoCalls
  /\ conf \in [output_name : {"out"}, parse_feature_string : BOOLEAN,
               ndebug : BOOLEAN]

FrameNext ==
  \/ \E me \in Readers, rnd_seed \in Seeds, features \in FrameFeatures,
        vectors \in CallerVectors :
       ChooseRankCallWith(me, rnd_seed, features, vectors[1], vectors[2],
                          "v1")
  \/ \E me \in Readers : ChooseRankAddRef(me)
  \/ \E me \in Readers : ChooseRankInfer(me)
  \/ \E me \in Readers : ChooseRankAssert(me)
  \/ \E me \in Readers : ChooseRankExtract(me)

FrameSpec == FrameInit /\ [][FrameNext]_vars

(***************************************************************************)
(* model_management::onnx_model, the wrapper for models with one input and *)
(* one output: its update, called by one thread.                           *)
(***************************************************************************)
ModelOneIntInput ==
  [id |-> "one-int-input", data_sz |-> 1, loads |-> TRUE,
   inputs |-> << [name |-> <<"x">>, type |-> Int64Tensor] >>,
   outputs |-> << [name |-> "out", type |-> FloatTensor,
                   elements |-> <<1>>] >>]
ModelOneIntOutput ==
  [id |-> "one-int-output", data_sz |-> 1, loads |-> TRUE,
   inputs |-> << [name |-> <<"x">>, type |-> FloatTensor] >>,
   outputs |-> << [name |-> "out", type |-> Int64Tensor,
                   elements |-> <<1>>] >>]

WrapperModelData ==
  {EmptyData, GarbageData, ModelA, ModelB, ModelTwoInputs, ModelOneIntInput,
   ModelOneIntOutput}

\* rules 1 and 2 of the wrapper's update: the reason of the first rule the
\* session violates, or "" when it violates none
WrapperValidate(session) ==
  IF Len(session.inputs) # 1 THEN "Invalid number of inputs. Expected: 1."
  ELSE IF session.inputs[1].type # FloatTensor
  THEN "Invalid input type. Expected: tensor<float>."
  ELSE IF Len(session.outputs) # 1
  THEN "Invalid number of outputs. Expected: 1."
  ELSE IF session.outputs[1].type # FloatTensor
  THEN "Invalid output type. Expected: tensor<float>."
  ELSE ""

\* lines 65-69: data of a positive size is loaded into a session that is
\* assigned to _master_session at once; the session served until then
\* loses its owner
WrapperUpdateLoad(data) ==
  /\ upd.pc \in {"idle", "returned"}
  /\ (data.data_sz > 0 /\ data.loads) => Len(heap) < MaxSessions
  /\ LET entry == [upd EXCEPT !.data = data.id,
                              !.before = <<master_session, output_index>>,
                              !.new_session = NullSession,
                              !.old_session = NullSession,
                              !.status = EmptyStatus]
     IN  IF data.data_sz > 0
         THEN IF ~data.loads
              THEN /\ upd' = [entry EXCEPT
                                !.pc = "returned",
                                !.status = Error("model_update_error",
                                                 "e.what()")]
                   /\ UNCHANGED <<heap, master_session>>
              ELSE /\ master_session' = Len(heap) + 1
                   /\ heap' = ReleaseRef(
                                Append(heap, [NewSession(data) EXCEPT
                                                !.refs = 1]),
                                master_session)
                   /\ upd' = [entry EXCEPT !.pc = "validate",
                                           !.new_session = Len(heap) + 1,
                                           !.old_session = master_session,
                                           !.installs = @ + 1]
         ELSE /\ upd' = [entry EXCEPT !.pc = "validate"]
              /\ UNCHANGED <<heap, master_session>>
  /\ UNCHANGED <<tp, output_index, rd, conf>>

\* lines 76-105: the rules are checked on _master_session, whichever session
\* that is.  With no session it is a null pointer that is dereferenced: the
\* process dies, or the engine raises an error that the handlers catch.
WrapperUpdateValidate ==
  /\ upd.pc = "validate"
  /\ IF master_session = NullSession
     THEN \/ upd' = [upd EXCEPT !.pc = "null_dereference"]
          \/ upd' = [upd EXCEPT !.pc = "returned",
                                !.status = Error("model_update_error",
                                                 "e.what()")]
     ELSE LET reason == WrapperValidate(heap[master_session].model)
          IN  IF reason # ""
              THEN upd' = [upd EXCEPT
                             !.pc = "returned",
                             !.status = Error("model_update_error", reason)]
              ELSE upd' = [upd EXCEPT !.pc = "ready"]
  /\ UNCHANGED <<tp, master_session, output_index, heap, rd, conf>>

\* lines 108-118
WrapperUpdateReturn ==
  /\ upd.pc = "ready"
  /\ upd' = [upd EXCEPT !.pc = "returned", !.model_ready = TRUE,
                        !.status = Success]
  /\ UNCHANGED <<tp, master_session, output_index, heap, rd, conf>>

WrapperInit ==
  /\ tp = NoParser
  /\ master_session = NullSession
  /\ output_index = 0
  /\ heap = <<>>
  /\ upd = IdleUpdater
  /\ rd = NoCalls
  /\ conf = [output_name |-> "out", parse_feature_string |-> TRUE,
             ndebug |-> FALSE]

WrapperNext ==
  \/ \E data \in WrapperModelData : WrapperUpdateLoad(data)
  \/ WrapperUpdateValidate
  \/ WrapperUpdateReturn

WrapperSpec == WrapperInit /\ [][WrapperNext]_vars

(***************************************************************************)
(* The specification of the parser: one TensorParser on one notation,      *)
(* cached_parse called up to MaxCalls times.                               *)
(***************************************************************************)
ParseInit ==
  /\ tp \in {NewTensorParser(b, <<>>) : b \in Notations}
  /\ master_session = NullSession
  /\ output_index = 0
  /\ heap = <<>>
  /\ upd = IdleUpdater
  /\ rd = NoCalls
  /\ conf = [output_name |-> "out", parse_feature_string |-> TRUE,
             ndebug |-> FALSE]

\* a call of cached_parse, its handler and its return
CachedParse ==
  /\ tp.pc \in CallPcs
  /\ tp.pc \in {"idle", "returned"} => Len(tp.returns) < MaxCalls
  /\ tp' = cached_parse(tp)
  /\ UNCHANGED <<master_session, output_index, heap, upd, rd, conf>>

ReadTensorList ==
  /\ tp.pc \in ListPcs
  /\ tp' = read_tensor_list(tp)
  /\ UNCHANGED <<master_session, output_index, heap, upd, rd, conf>>

ReadTensor ==
  /\ tp.pc \in TensorPcs
  /\ tp' = read_tensor(tp)
  /\ UNCHANGED <<master_session, output_index, heap, upd, rd, conf>>

ReadTensorName ==
  /\ tp.pc \in NamePcs
  /\ tp' = read_tensor_name(tp)
  /\ UNCHANGED <<master_session, output_index, heap, upd, rd, conf>>

ReadTensorData ==
  /\ tp.pc \in DataPcs
  /\ tp' = read_tensor_data(tp)
  /\ UNCHANGED <<master_session, output_index, heap, upd, rd, conf>>

ReadBase64 ==
  /\ tp.pc \in Base64Pcs
  /\ tp' = read_base64(tp)
  /\ UNCHANGED <<master_session, output_index, heap, upd, rd, conf>>

ParseNext ==
  \/ CachedParse
  \/ ReadTensorList
  \/ ReadTensor
  \/ ReadTensorName
  \/ ReadTensorData
  \/ ReadBase64

ParseSpec == ParseInit /\ [][ParseNext]_vars

\* the thread that is in cached_parse keeps running: a step that can be
\* taken is taken
ParseLiveSpec == ParseSpec /\ WF_vars(ParseNext)


(***************************************************************************)
(* Properties of the model handle (specification Spec).                    *)
(***************************************************************************)
\* the index update computes for a session: that of its output named
\* _output_name
DesignatedIndex(session) ==
  FindOutput(heap[session].model, conf.output_name, 0)

UpdateFailed == upd.pc = "returned" /\ upd.status.code = "model_update_error"

\* C1: whenever update has returned an error, _master_session and
\* _output_index are what they were when that call began, after any sequence
\* of successful and failed updates.
C1_FailedUpdateKeepsServedModel ==
  UpdateFailed => <<master_session, output_index>> = upd.before

\* C1, its case: an update has failed on a model whose output has the wrong
\* type while a session installed by an earlier update is served.
C1_Witness ==
  /\ UpdateFailed
  /\ upd.data = "int-output"
  /\ upd.installs > 0
  /\ master_session # NullSession

\* C2: in every state, the session and the output index a reader can read
\* are the pair one successful update produced.
C2_SessionAndIndexPublishedTogether ==
  master_session # NullSession =>
    output_index = DesignatedIndex(master_session)

\* C3: the output index a choose_rank call reads at line 191 is the one of
\* the session it captured at entry.
C3_IndexBelongsToCapturedSession ==
  \A me \in Readers :
    me.pc = "extract" => output_index = DesignatedIndex(me.local_session)

\* C4: no reader holds or uses a session that has been destroyed.
C4_NoReaderHoldsDestroyedSession ==
  \A me \in Readers :
    me.local_session # NullSession => heap[me.local_session].alive

NoModelLoaded(me) ==
  me.pc = "returned" /\ me.status.reason = "No model loaded."

\* C5: a choose_rank call returns "No model loaded." exactly when no update
\* had installed a session (line 134) when the call read _master_session,
\* and then it has not parsed; once a session is installed the served
\* session is never empty again.
C5_NoModelLoadedOnlyBeforeFirstInstall ==
  /\ upd.installs > 0 => master_session # NullSession
  /\ \A me \in Readers :
       me.pc = "returned" =>
         /\ NoModelLoaded(me) <=> ~me.served_at_entry
         /\ NoModelLoaded(me) => ~me.parsed

\* C5, its case: one call that began before the first install has returned
\* the error, a failed update came after a successful one, and a later call
\* has returned something else.
C5_Witness ==
  /\ UpdateFailed
  /\ upd.installs > 0
  /\ \E me \in Readers : NoModelLoaded(me)
  /\ \E me \in Readers : me.pc = "returned" /\ me.status.code = "success"


(***************************************************************************)
(* Properties of the parser (specification ParseSpec).                     *)
(***************************************************************************)
Whitespace == {" ", "\t", "\r", "\n"}

\* the offsets before pos that hold a line feed
NewlinesBefore(buffer, pos) ==
  {i \in 0..(pos - 1) : CharAt(buffer, i) = "\n"}

\* the offset at which the line of pos begins
LineStart(buffer, pos) ==
  IF NewlinesBefore(buffer, pos) = {} THEN 0
  ELSE 1 + CHOOSE i \in NewlinesBefore(buffer, pos) :
             \A j \in NewlinesBefore(buffer, pos) : j <= i

\* the last character before pos that is not whitespace
PreviousToken(buffer, pos) ==
  LET solid == {i \in 0..(pos - 1) : CharAt(buffer, i) \notin Whitespace}
  IN  IF solid = {} THEN NULL_TERMINATOR
      ELSE CharAt(buffer, CHOOSE i \in solid : \A j \in solid : j <= i)

FirstCallFailed ==
  Len(tp.returns) = 1 /\ tp.pc = "returned" /\ ~tp.returns[1].value

FirstCallSucceeded == Len(tp.returns) >= 1 /\ tp.returns[1].value

\* C6: when parsing fails, the position of the error is the 1-based line and
\* column of the failing character: line = 1 + the line feeds before it,
\* column = 1 + the characters between the start of its line and it.
C6_ErrorPositionIsOneBased ==
  tp.pc = "catch" =>
    /\ tp.thrown.error.line =
         1 + Cardinality(NewlinesBefore(tp.parse_buffer, tp.reading_head))
    /\ tp.thrown.error.col =
         1 + (tp.reading_head - LineStart(tp.parse_buffer, tp.reading_head))

\* C7: when parsing fails, error_message() is the diagnostic built where the
\* failure was raised: its position and, for a run of a bad length, the run.
C7_ErrorMessageCarriesDiagnostic ==
  FirstCallFailed =>
    /\ error_message(tp) = tp.thrown.error
    /\ error_message(tp).line >= 1

\* C8: every later call of cached_parse returns what the first call
\* returned, leaves the cursor where the first call left it and pushes
\* nothing more.
C8_CachedParseIdempotent ==
  \A k \in 2..Len(tp.returns) : tp.returns[k] = tp.returns[1]

\* C9: in a notation the parser accepts, every tensor after the first comes
\* after a ',' (whitespace aside): a tensor that directly follows another
\* tensor is rejected.
C9_TensorsSeparatedByComma ==
  FirstCallSucceeded =>
    \A k \in 2..tp.returns[1].pushed :
      PreviousToken(tp.parse_buffer, tp.starts[k]) = COMMA

\* C10 as claimed: no tensor with an empty dims run or an empty values run
\* is pushed into the InputContext.
C10_EmptyRunRejected ==
  \A k \in 1..Len(tp.parse_context) :
    /\ Len(tp.parse_context[k].dims) > 0
    /\ Len(tp.parse_context[k].values) > 0

\* C10, amended: read_base64 accepts a run exactly when its length is a
\* multiple of 4, zero included, and its content decodes; an empty run
\* decodes to no bytes; the bad-length error is raised only for a run whose
\* length is not a multiple of 4.
C10_RunLengthMultipleOfFour ==
  LET length == tp.reading_head - tp.token_start
  IN  /\ tp.pc = "data_semi" =>
           length % 4 = 0 /\ (Len(tp.dims) = 0 <=> length = 0)
      /\ tp.pc = "data_close" =>
           length % 4 = 0 /\ (Len(tp.values) = 0 <=> length = 0)
      /\ (tp.pc = "catch" /\ tp.thrown.error.kind = "base64 length") =>
           length % 4 # 0 /\ Len(tp.thrown.error.run) = length

\* C10, its case: a notation is accepted whose tensor has an empty dims run
\* or an empty values run.
C10_Witness ==
  /\ FirstCallSucceeded
  /\ \E k \in 1..tp.returns[1].pushed :
       \/ tp.parse_context[k].dims = <<>>
       \/ tp.parse_context[k].values = <<>>


\* the offsets from pos on that hold a character other than whitespace
SolidFrom(buffer, pos) ==
  {i \in pos..(Len(buffer.chars) - 1) : CharAt(buffer, i) \notin Whitespace}

\* C11: a non-empty notation is accepted only if it is one '{' TensorList? '}'
\* as a whole: when the first call succeeds on a non-empty buffer, nothing
\* but whitespace is left after the closing '}' where the parser stopped.
C11_NothingAfterClosingBracket ==
  (/\ FirstCallSucceeded
   /\ ~tp.parse_buffer.null
   /\ Len(tp.parse_buffer.chars) > 0) =>
     SolidFrom(tp.parse_buffer, tp.returns[1].reading_head) = {}


\* C12: the escape flag of the name scan is set only for the character that
\* directly follows a backslash: it does not persist past an escaped quote
\* or across other characters, so a later plain '"' ends the name.
C12_EscapeCoversOnlyNextCharacter ==
  (tp.pc = "name_scan" /\ tp.in_escape) =>
    /\ tp.reading_head > tp.token_start
    /\ CharAt(tp.parse_buffer, tp.reading_head - 1) = ESCAPE


\* the notations that hold no tensor: a null buffer, "" and "{}"
NoTensorNotations ==
  {NullBuffer, Buffer(<<>>), Buffer(<<OPEN_CBRACKET, CLOSE_CBRACKET>>)}

FirstCallReturned == Len(tp.returns) = 1 /\ tp.pc = "returned"

\* C13: parsing a null buffer, an empty string or {} succeeds, pushes no
\* tensor into the InputContext and reports no error.
C13_NoTensorNotationsSucceed ==
  (tp.parse_buffer \in NoTensorNotations /\ FirstCallReturned) =>
    /\ tp.returns[1].value
    /\ tp.parse_context = <<>>
    /\ succeeded(tp)
    /\ error_message(tp) = EmptyMessage

\* C13, its case: the empty string has been parsed by the first call
C13_Witness ==
  /\ FirstCallReturned
  /\ tp.parse_buffer = Buffer(<<>>)
  /\ tp.returns[1].value


\* the first offset from pos on that holds c
NextChar(buffer, pos, c) ==
  CHOOSE i \in pos..Len(buffer.chars) :
    /\ i = Len(buffer.chars) \/ CharAt(buffer, i) = c
    /\ \A j \in pos..(i - 1) : CharAt(buffer, j) # c

\* the tensor written at offset pos, "name":"dims;values", for a name that
\* holds no '"': what its text says is to be pushed
TensorAt(buffer, pos) ==
  LET name_end == NextChar(buffer, pos + 1, DQUOTE)
      data_open == NextChar(buffer, name_end + 1, DQUOTE)
      semi == NextChar(buffer, data_open + 1, SEMICOLON)
      data_close == NextChar(buffer, semi + 1, DQUOTE)
  IN  [name |-> Substring(buffer, pos + 1, name_end - pos - 1),
       dims |-> from_base64(Substring(buffer, data_open + 1,
                                      semi - data_open - 1)),
       values |-> from_base64(Substring(buffer, semi + 1,
                                        data_close - semi - 1))]

\* the tensors written before pos, counted by their ':' (no name of the
\* notations checked holds one)
TensorCount(buffer, pos) ==
  Cardinality({i \in 0..(pos - 1) : CharAt(buffer, i) = COLON})

\* C14: on a successful parse the pushes are the tensors of the input in
\* textual order, one push per tensor: the k-th push is the tensor written
\* at the k-th tensor position, the positions increase, and as many tensors
\* are pushed as are written, duplicate names included.
C14_PushesFollowTextualOrder ==
  FirstCallSucceeded =>
    LET pushed == tp.returns[1].pushed
    IN  /\ pushed = TensorCount(tp.parse_buffer, tp.returns[1].reading_head)
        /\ \A k \in 1..pushed :
             /\ tp.parse_context[k] = TensorAt(tp.parse_buffer, tp.starts[k])
             /\ k > 1 => tp.starts[k - 1] < tp.starts[k]

\* C14, its case: a notation with two tensors of one name has been accepted
C14_Witness ==
  /\ FirstCallSucceeded
  /\ tp.returns[1].pushed >= 2
  /\ tp.parse_context[1].name = tp.parse_context[2].name
  /\ tp.parse_context[1] # tp.parse_context[2]


(***************************************************************************)
(* Properties of choose_rank (specification RankSpec).                     *)
(***************************************************************************)
CountMismatch(me) ==
  /\ me.pc = "returned"
  /\ me.status.code = "model_rank_error"
  /\ me.status.reason =
       "Could not interpret input values to match expected inputs."

\* C15: a call whose parsed notation holds another number of tensors than
\* the served model declares inputs returns the input-count-mismatch rank
\* error and has not invoked the engine.
C15_CountMismatchIsRankError ==
  \A me \in Readers : me.mismatch => CountMismatch(me) /\ ~me.ran

\* C16: no exception escapes update or choose_rank: every call ends by
\* returning a status.
C16_NoExceptionEscapes ==
  /\ upd.pc = "returned" => upd.status.code \in {"success", "model_update_error"}
  /\ \A me \in Readers : me.pc # "threw"

\* the output of the served model that carries the configured name
DesignatedOutput ==
  heap[master_session].model.outputs[DesignatedIndex(master_session) + 1]

\* C17: a call on valid matching input, started with empty vectors, returns
\* success with one entry per element of the designated output:
\* action_ids = 0, 1, ..., N-1 and action_pdf = the N elements.
C17_OneEntryPerOutputElement ==
  \A me \in Readers :
    /\ me.pc \notin {"aborted", "out_of_bounds"}
    /\ (me.pc = "returned" /\ me.ran) =>
         /\ me.status = Success
         /\ me.action_ids =
              [i \in 1..Len(DesignatedOutput.elements) |-> i - 1]
         /\ me.action_pdf = DesignatedOutput.elements

\* C18: the index choose_rank uses into the outputs Run returned is within
\* bounds: the assertion of line 187 holds in every call that reaches it,
\* and the output read at line 191 is the designated one.
C18_OutputIndexWithinBounds ==
  \A me \in Readers :
    /\ me.pc = "assert" => Len(me.outputs) > output_index
    /\ me.pc = "extract" =>
         /\ Len(me.outputs) > output_index
         /\ me.outputs[output_index + 1] = DesignatedOutput


(***************************************************************************)
(* Properties of the wrapper's update (specification WrapperSpec).         *)
(***************************************************************************)
\* C19: in the wrapper, an update with zero-length data or with a model
\* that violates a rule returns an error and leaves the session served
\* before in service; a rejected model is never the one served.
C19_WrapperFailedUpdateKeepsServedModel ==
  upd.pc = "returned" =>
    /\ upd.data = "empty" => UpdateFailed
    /\ UpdateFailed => master_session = upd.before[1]
    /\ master_session # NullSession =>
         WrapperValidate(heap[master_session].model) = ""


(***************************************************************************)
(* The cursor of the parser (specification ParseSpec).                     *)
(***************************************************************************)
\* C20: the parser makes a single pass from left to right: in every step the
\* cursor does not decrease, and it is never beyond the null terminator of
\* the buffer, so that make_error, which reads the characters up to and
\* including the cursor's, reads none beyond the terminator.
C20_CursorForwardAndWithinBuffer ==
  /\ [](tp.reading_head <= Len(tp.parse_buffer.chars))
  /\ [][tp'.reading_head >= tp.reading_head]_vars

\* C20, its case: an error is made with the cursor on the terminator of a
\* buffer that is not empty
C20_Witness ==
  /\ tp.pc = "catch"
  /\ Len(tp.parse_buffer.chars) > 0
  /\ tp.reading_head = Len(tp.parse_buffer.chars)


(***************************************************************************)
(* Termination of the parser (specification ParseLiveSpec).                *)
(***************************************************************************)
\* the statements that are the body of a scanning loop
ScanPcs ==
  {"list_ws1", "list_ws2", "list_ws3", "list_ws4", "tensor_ws1",
   "tensor_ws2", "name_scan", "dims_scan", "vals_scan"}

InCachedParse == tp.pc \notin {"idle", "returned", "escaped"}

\* C21: cached_parse terminates on every input: an iteration of a scanning
\* loop advances the cursor or leaves the loop, and a call that has begun
\* always comes to its end.
C21_CachedParseTerminates ==
  /\ [][tp.pc \in ScanPcs =>
          \/ tp'.reading_head > tp.reading_head
          \/ tp'.pc # tp.pc]_vars
  /\ InCachedParse ~> ~InCachedParse

\* C21, its case: a malformed notation was scanned up to its terminator,
\* through an unterminated name, and the call has returned
C21_Witness ==
  /\ FirstCallFailed
  /\ tp.token_start < tp.reading_head
  /\ tp.reading_head = Len(tp.parse_buffer.chars)
  /\ tp.thrown.error.expected = DQUOTE


(***************************************************************************)
(* The context after a failed parse (specification ParseSpec).             *)
(***************************************************************************)
\* the offset of the '"' that closes the data of the tensor written at pos
ClosingQuote(buffer, pos) ==
  LET name_end == NextChar(buffer, pos + 1, DQUOTE)
      data_open == NextChar(buffer, name_end + 1, DQUOTE)
      semi == NextChar(buffer, data_open + 1, SEMICOLON)
  IN  NextChar(buffer, semi + 1, DQUOTE)

\* the tensors whose text ends before pos, counted by the '"' that closes a
\* values run: a '"' that follows a ';' and a run of base64 characters
ClosedTensors(buffer, pos) ==
  Cardinality(
    {p \in 0..(pos - 1) :
       /\ CharAt(buffer, p) = DQUOTE
       /\ \E s \in 0..(p - 1) :
            /\ CharAt(buffer, s) = SEMICOLON
            /\ \A j \in (s + 1)..(p - 1) : is_base64(CharAt(buffer, j))})

NoEscape(buffer) ==
  \A i \in 0..(Len(buffer.chars) - 1) : CharAt(buffer, i) # ESCAPE

\* C22: a failed parse does not roll the context back: once cached_parse has
\* returned false the context holds the tensors whose closing '"' lies
\* before the failing position, in the order of the text, and nothing of
\* the tensor in which the parse failed.
C22_FailedParseKeepsPushedPrefix ==
  FirstCallFailed =>
    LET pushed == Len(tp.parse_context)
    IN  /\ pushed = tp.returns[1].pushed
        /\ \A k \in 1..pushed :
             /\ tp.parse_context[k] = TensorAt(tp.parse_buffer, tp.starts[k])
             /\ ClosingQuote(tp.parse_buffer, tp.starts[k]) < tp.reading_head
             /\ k > 1 => tp.starts[k - 1] < tp.starts[k]
        /\ NoEscape(tp.parse_buffer) =>
             pushed = ClosedTensors(tp.parse_buffer, tp.reading_head)

\* C22, its case: a parse has failed after a tensor was pushed
C22_Witness ==
  /\ FirstCallFailed
  /\ Len(tp.parse_context) >= 1
  /\ tp.tensor_start > tp.starts[Len(tp.starts)]


(***************************************************************************)
(* What choose_rank writes (specification FrameSpec).                      *)
(***************************************************************************)
\* s is t with further elements appended
Extends(s, t) == Len(s) >= Len(t) /\ SubSeq(s, 1, Len(t)) = t

\* two calls with the same arguments, the seed aside
SameButSeed(c, d) ==
  [c EXCEPT !.rnd_seed = 0] = [d EXCEPT !.rnd_seed = 0]

\* C23: on every error return choose_rank leaves the caller's action_ids,
\* action_pdf and model_version as they were; on success it only appends to
\* the two vectors, as many entries to each, and does not write
\* model_version; what it returns does not depend on rnd_seed.
C23_ChooseRankOnlyAppends ==
  \A me \in Readers :
    me.pc = "returned" =>
      /\ me.model_version = me.call.model_version
      /\ me.status # Success =>
           /\ me.action_ids = me.call.action_ids
           /\ me.action_pdf = me.call.action_pdf
      /\ me.status = Success =>
           /\ Extends(me.action_ids, me.call.action_ids)
           /\ Extends(me.action_pdf, me.call.action_pdf)
           /\ Len(me.action_ids) - Len(me.call.action_ids) =
                Len(me.action_pdf) - Len(me.call.action_pdf)
      /\ \A other \in Readers :
           (other.pc = "returned" /\ SameButSeed(me.call, other.call)) =>
             /\ other.status = me.status
             /\ other.action_ids = me.action_ids
             /\ other.action_pdf = me.action_pdf

\* C23, its case: a call that was given vectors that were not empty has
\* returned success, and a call with another seed has returned too
C23_Witness ==
  \E me \in Readers, other \in Readers :
    /\ me.pc = "returned" /\ me.status = Success
    /\ me.call.action_ids # <<>>
    /\ Len(me.action_ids) > Len(me.call.action_ids)
    /\ other.pc = "returned"
    /\ other.call.rnd_seed # me.call.rnd_seed
    /\ SameButSeed(me.call, other.call)


(***************************************************************************)
(* What update writes (specification UpdateSpec).                          *)
(***************************************************************************)
\* a step of the caller, not of update
CallerStep == upd.pc \in {"idle", "returned"} /\ upd'.pc = upd.pc

\* C24: update writes model_ready only on success: the flag changes in no
\* step of update but the return of a successful call, which sets it to
\* true when the new session is the one installed; a call that fails
\* leaves the flag as the caller passed it.
C24_ModelReadyWrittenOnlyOnSuccess ==
  /\ [][(upd'.model_ready # upd.model_ready /\ ~CallerStep) =>
          /\ upd'.pc = "returned"
          /\ upd'.status = Success
          /\ upd'.model_ready
          /\ master_session = upd.new_session]_vars
  /\ [][(upd'.pc = "returned" /\ upd.pc # "returned"
           /\ upd'.status = Success) => upd'.model_ready]_vars

\* C24, its case: a call has failed with nothing ever installed and the
\* flag the caller passed as true is still true
C24_Witness ==
  /\ UpdateFailed
  /\ upd.installs = 0
  /\ upd.model_ready

=============================================================================
